---- MODULE Spec2Model ----
(***************************************************************************)
(* Model of src/src/ingestion_standardization.py: the AFDC / EIA / NHTSA   *)
(* ingestion adapters, their standardizers and the run_all orchestrator.   *)
(*                                                                         *)
(* Conventions                                                             *)
(*   - a DataFrame is [columns |-> <<names>>, rows |-> <<rows>>]; a row is  *)
(*     a function from column name to cell value;                          *)
(*   - an optional value is a sequence: <<>> is NaN / None / NaT, <<v>> a   *)
(*     present value; a timestamp is <<year, month, day>>;                 *)
(*   - a float quotient a / b is kept exact as [num |-> a, den |-> b];      *)
(*   - a missing string cell is the string NaNStr.                         *)
(***************************************************************************)
EXTENDS Integers, Sequences, FiniteSets

\* ------------------------------------------------------------------------
\* Bounds of the explored inputs
\* ------------------------------------------------------------------------
MaxAfdcFiles == 2

MaxStationRows == 1

MaxWbRows == 2

MaxWbCols == 1

MaxRecallFiles == 1

MaxRecallRows == 1

\* Rows of a table passed to a standardizer called directly
MaxCallRows == 2

\* Tokens of a file name before its parenthesised group
MaxNameTokens == 3

\* Characters of a filing identifier
MaxIdLen == 4

\* ------------------------------------------------------------------------
\* Generic helpers
\* ------------------------------------------------------------------------
None == <<>>

Some(v) == <<v>>

NaT == <<>>

NaNStr == "nan"

Range(s) == {s[i] : i \in DOMAIN s}

SeqsUpTo(S, n) == UNION {[1..k -> S] : k \in 0..n}

Contains(s, x) == \E i \in DOMAIN s : s[i] = x

\* The element of a one-element set: Only({F(x) : x \in {e}}) is F(e) with e
\* evaluated once.
Only(S) == CHOOSE x \in S : TRUE

RECURSIVE SumSeq(_)
SumSeq(s) == IF s = <<>> THEN 0 ELSE Head(s) + SumSeq(Tail(s))

RECURSIVE FlattenSeq(_)
FlattenSeq(ss) == IF ss = <<>> THEN <<>> ELSE Head(ss) \o FlattenSeq(Tail(ss))

\* Keep the first occurrence of every element, in order.
RECURSIVE Dedup(_)
Dedup(s) ==
  IF s = <<>> THEN <<>>
  ELSE LET r == Dedup(SubSeq(s, 1, Len(s) - 1))
           x == s[Len(s)]
       IN IF Contains(r, x) THEN r ELSE Append(r, x)

\* Stable sort of s under the strict weak order Less(a, b): element i goes to
\* the position after every smaller element and every earlier equal one.
StableSort(s, Less(_, _)) ==
  LET Pos(i) == 1 + Cardinality({j \in DOMAIN s :
                      Less(s[j], s[i]) \/ (~Less(s[i], s[j]) /\ j < i)})
  IN [p \in DOMAIN s |-> s[CHOOSE i \in DOMAIN s : Pos(i) = p]]

\* ------------------------------------------------------------------------
\* DataFrames
\* ------------------------------------------------------------------------
DF(columns, rows) == [columns |-> columns, rows |-> rows]

EmptyDF == DF(<<>>, <<>>)

\* DataFrame.empty: any axis of length 0
IsEmpty(df) == Len(df.columns) = 0 \/ Len(df.rows) = 0

HasCol(df, c) == Contains(df.columns, c)

\* ------------------------------------------------------------------------
\* Constants of the module
\* ------------------------------------------------------------------------
STATE_ABBR ==
  {"AL", "AK", "AZ", "AR", "CA", "CO", "CT", "DE", "FL", "GA", "HI", "ID", "IL",
   "IN", "IA", "KS", "KY", "LA", "ME", "MD", "MA", "MI", "MN", "MS", "MO", "MT",
   "NE", "NV", "NH", "NJ", "NM", "NY", "NC", "ND", "OH", "OK", "OR", "PA", "RI",
   "SC", "SD", "TN", "TX", "UT", "VT", "VA", "WA", "WV", "WI", "WY", "DC", "PR"}

STATE_NAME_TO_ABBR ==
  << <<"Alabama", "AL">>, <<"Alaska", "AK">>, <<"Arizona", "AZ">>,
     <<"Arkansas", "AR">>, <<"California", "CA">>, <<"Colorado", "CO">>,
     <<"Connecticut", "CT">>, <<"Delaware", "DE">>, <<"Florida", "FL">>,
     <<"Georgia", "GA">>, <<"Hawaii", "HI">>, <<"Idaho", "ID">>,
     <<"Illinois", "IL">>, <<"Indiana", "IN">>, <<"Iowa", "IA">>,
     <<"Kansas", "KS">>, <<"Kentucky", "KY">>, <<"Louisiana", "LA">>,
     <<"Maine", "ME">>, <<"Maryland", "MD">>, <<"Massachusetts", "MA">>,
     <<"Michigan", "MI">>, <<"Minnesota", "MN">>, <<"Mississippi", "MS">>,
     <<"Missouri", "MO">>, <<"Montana", "MT">>, <<"Nebraska", "NE">>,
     <<"Nevada", "NV">>, <<"New Hampshire", "NH">>, <<"New Jersey", "NJ">>,
     <<"New Mexico", "NM">>, <<"New York", "NY">>, <<"North Carolina", "NC">>,
     <<"North Dakota", "ND">>, <<"Ohio", "OH">>, <<"Oklahoma", "OK">>,
     <<"Oregon", "OR">>, <<"Pennsylvania", "PA">>, <<"Rhode Island", "RI">>,
     <<"South Carolina", "SC">>, <<"South Dakota", "SD">>, <<"Tennessee", "TN">>,
     <<"Texas", "TX">>, <<"Utah", "UT">>, <<"Vermont", "VT">>,
     <<"Virginia", "VA">>, <<"Washington", "WA">>, <<"West Virginia", "WV">>,
     <<"Wisconsin", "WI">>, <<"Wyoming", "WY">>,
     <<"District of Columbia", "DC">>, <<"Puerto Rico", "PR">> >>

\* DEFAULT_STATE_POP as (state, population) pairs
DEFAULT_STATE_POP ==
  << <<"AL", 5074296>>, <<"AK", 733406>>, <<"AZ", 7359197>>, <<"AR", 3045637>>,
     <<"CA", 38965193>>, <<"CO", 5893634>>, <<"CT", 3626205>>, <<"DE", 1035009>>,
     <<"FL", 22391017>>, <<"GA", 11029004>>, <<"HI", 1440195>>, <<"ID", 1964727>>,
     <<"IL", 12582032>>, <<"IN", 6882403>>, <<"IA", 3200517>>, <<"KS", 2937150>>,
     <<"KY", 4512310>>, <<"LA", 4600186>>, <<"ME", 1385340>>, <<"MD", 6185277>>,
     <<"MA", 7055253>>, <<"MI", 10056478>>, <<"MN", 5717184>>, <<"MS", 2940054>>,
     <<"MO", 6169038>>, <<"MT", 1122867>>, <<"NE", 1960790>>, <<"NV", 3177772>>,
     <<"NH", 1379617>>, <<"NJ", 9387343>>, <<"NM", 2120220>>, <<"NY", 19491339>>,
     <<"NC", 10600823>>, <<"ND", 812615>>, <<"OH", 11712533>>, <<"OK", 4019800>>,
     <<"OR", 4237256>>, <<"PA", 12821920>>, <<"RI", 1093994>>, <<"SC", 5328210>>,
     <<"SD", 919324>>, <<"TN", 7067904>>, <<"TX", 30390355>>, <<"UT", 3430800>>,
     <<"VT", 647464>>, <<"VA", 8734853>>, <<"WA", 7797095>>, <<"WV", 1755715>>,
     <<"WI", 5892539>>, <<"WY", 581381>>, <<"DC", 671803>>, <<"PR", 3263587>> >>

\* Python's string order on the strings that reach a sort or a groupby:
\* the state codes and the recall makes, in ascending order.
STRING_ORDER ==
  <<"AK", "AL", "AR", "AZ", "CA", "CHEVROLET", "CO", "CT", "DC", "DE", "FL",
    "FORD", "GA", "GMC", "HI", "HONDA", "IA", "ID", "IL", "IN", "KS", "KY", "LA", "MA",
    "MD", "ME", "MI", "MN", "MO", "MS", "MT", "NC", "ND", "NE", "NH", "NJ", "NM",
    "NV", "NY", "OH", "OK", "OR", "PA", "PR", "RI", "RIVIAN", "SC", "SD", "TESLA",
    "TN", "TX", "UT", "VA", "VT", "WA", "WI", "WV", "WY">>

\* A string outside the table ranks after all of them.
StrRank(s) ==
  IF Contains(STRING_ORDER, s)
    THEN CHOOSE i \in DOMAIN STRING_ORDER : STRING_ORDER[i] = s
  ELSE Len(STRING_ORDER) + 1

\* NaN keys sort after every string.
StrLess(a, b) ==
  IF a = NaNStr THEN FALSE
  ELSE IF b = NaNStr THEN TRUE
  ELSE StrRank(a) < StrRank(b)

\* Order of timestamps; NaT sorts after every date (na_position = "last").
TsLess(a, b) ==
  IF a = NaT THEN FALSE
  ELSE IF b = NaT THEN TRUE
  ELSE \/ a[1] < b[1]
       \/ a[1] = b[1] /\ a[2] < b[2]
       \/ a[1] = b[1] /\ a[2] = b[2] /\ a[3] < b[3]

\* .dt.to_period("M").dt.to_timestamp(): first day of the month, NaT kept
ToMonth(ts) == IF ts = NaT THEN NaT ELSE <<ts[1], ts[2], 1>>

\* ------------------------------------------------------------------------
\* Helper functions
\* ------------------------------------------------------------------------
\* _first_nonnull over a list of column names (never null): the first one,
\* or the default when the list is empty.
_first_nonnull(iterable, default) ==
  IF iterable = <<>> THEN default ELSE iterable[1]

\* A file name is the sequence of its whitespace/underscore separated tokens
\* plus the tokens inside its first "(...)" group (<<>> when there is none).
\* A token is [k |-> "word" | "mon" | "num" | "numext", v |-> value,
\* n |-> digits]; "numext" is a number with the file extension attached
\* ("2021.csv"), which str.isdigit() rejects.
Word == [k |-> "word", v |-> 0, n |-> 0]

Mon(m) == [k |-> "mon", v |-> m, n |-> 0]

Num(v, n) == [k |-> "num", v |-> v, n |-> n]

NumExt(v, n) == [k |-> "numext", v |-> v, n |-> n]

\* pd.to_datetime(text, errors="raise") on a space-joined token list:
\* "Oct 7 2024", "Oct 2024" and "2024" parse, text with a word does not.
ToDatetime(toks) ==
  IF Len(toks) = 3 /\ toks[1].k = "mon" /\ toks[2].k = "num" /\ toks[2].n <= 2
     /\ toks[3].k = "num" /\ toks[3].n = 4
    THEN Some(<<toks[3].v, toks[1].v, toks[2].v>>)
  ELSE IF Len(toks) = 2 /\ toks[1].k = "mon" /\ toks[2].k = "num" /\ toks[2].n = 4
    THEN Some(<<toks[2].v, toks[1].v, 1>>)
  ELSE IF Len(toks) = 1 /\ toks[1].k = "num" /\ toks[1].n = 4
    THEN Some(<<toks[1].v, 1, 1>>)
  ELSE None

\* First 3-token window that parses, scanning from index i.
RECURSIVE FirstWindow(_, _)
FirstWindow(tokens, i) ==
  IF i + 2 > Len(tokens) THEN None
  ELSE IF ToDatetime(SubSeq(tokens, i, i + 2)) # None
    THEN ToDatetime(SubSeq(tokens, i, i + 2))
  ELSE FirstWindow(tokens, i + 1)

\* First bare 4-digit token, as the placeholder date October 7 of that year.
RECURSIVE FirstYear(_, _)
FirstYear(tokens, i) ==
  IF i > Len(tokens) THEN None
  ELSE IF tokens[i].k = "num" /\ tokens[i].n = 4
    THEN Some(<<tokens[i].v, 10, 7>>)
  ELSE FirstYear(tokens, i + 1)

\* Returns <<timestamp>> or None.
_infer_snapshot_date_from_name(name) ==
  IF name.paren # <<>> /\ ToDatetime(name.paren) # None
    THEN ToDatetime(name.paren)
  ELSE IF FirstWindow(name.tokens, 1) # None
    THEN FirstWindow(name.tokens, 1)
  ELSE FirstYear(name.tokens, 1)

\* ------------------------------------------------------------------------
\* AFDC: historical station snapshots
\* ------------------------------------------------------------------------
FUEL_COL == "Fuel Type Code"

STATE_COLS == <<"State", "STATE", "state">>

DC_FAST_COLS == <<"EV DC Fast Count", "EV Fast Count", "EVDC_FastCount">>

LVL2_COLS == <<"EV Level2 EVSE Num", "EV Level 2 EVSE Num", "EV_Level2_EVSENum">>

LVL1_COLS == <<"EV Level1 EVSE Num", "EV Level 1 EVSE Num", "EV_Level1_EVSENum">>

\* Columns whose name contains "connector" (case-insensitively), among the
\* header spellings the model uses.
CONNECTOR_COLS == {"EV Connector Types", "ev connector types"}

\* Columns holding text; every other column holds an optional value.
STRING_COLS ==
  {"Fuel Type Code", "State", "STATE", "state", "MAKE", "Make", " make ",
   "MANUFACTURER NAME", "MFR_NAME", "make", "MODEL"}

\* The value pd.concat fills in for a column a frame does not have.
NullOf(c) == IF c \in STRING_COLS THEN NaNStr ELSE None

\* pd.concat(frames, ignore_index=True): union of the columns in order of
\* first appearance, rows stacked, absent cells null.
Concat(frames) ==
  LET cols == Dedup(FlattenSeq([i \in DOMAIN frames |-> frames[i].columns]))
      Widen(r) == [c \in Range(cols) |-> IF c \in DOMAIN r THEN r[c] ELSE NullOf(c)]
      Rows(f) == [j \in DOMAIN f.rows |-> Widen(f.rows[j])]
  IN DF(cols, FlattenSeq([i \in DOMAIN frames |-> Rows(frames[i])]))

\* One file read by ingest_afdc_historical: read_csv, then the snapshot_date
\* column set to the date inferred from the file name.
ReadAfdcFile(f) ==
  LET d == _infer_snapshot_date_from_name(f.name)
      ts == IF d = None THEN NaT ELSE d[1]
      Tag(r) == [c \in (DOMAIN r) \cup {"snapshot_date"} |->
                   IF c = "snapshot_date" THEN ts ELSE r[c]]
  IN DF(IF Contains(f.columns, "snapshot_date") THEN f.columns
        ELSE Append(f.columns, "snapshot_date"),
        [j \in DOMAIN f.rows |-> Tag(f.rows[j])])

ingest_afdc_historical(files) ==
  LET present == SelectSeq(files, LAMBDA f : f.exists)
      frames == [i \in DOMAIN present |-> ReadAfdcFile(present[i])]
  IN IF frames = <<>> THEN EmptyDF ELSE Concat(frames)

\* _find_column: the first candidate that is a column of df, as <<name>>,
\* or None.
RECURSIVE FindFrom(_, _, _)
FindFrom(df, candidates, i) ==
  IF i > Len(candidates) THEN None
  ELSE IF HasCol(df, candidates[i]) THEN Some(candidates[i])
  ELSE FindFrom(df, candidates, i + 1)

_find_column(df, candidates) == FindFrom(df, candidates, 1)

\* pd.to_numeric(series, errors="coerce").fillna(0) on one cell
NumOrZero(cell) == IF cell = None THEN 0 ELSE cell[1]

\* Number of non-blank pieces of a ";"-separated connector cell. The cell is
\* None (NaN) or <<pieces>>, the result of str.split(";").
IsBlank(piece) == piece \in {"", " "}

ConnectorCount(cell) ==
  IF cell = None \/ cell[1] = <<"">> THEN 0
  ELSE Cardinality({i \in DOMAIN cell[1] : ~IsBlank(cell[1][i])})

\* Variant of RowPorts that counts connectors whenever a connector column
\* exists, before looking at the count columns.
RowPortsConnectorFirst(df, r) ==
  LET dc_fast == _find_column(df, DC_FAST_COLS)
      lvl2 == _find_column(df, LVL2_COLS)
      lvl1 == _find_column(df, LVL1_COLS)
      Part(x) == IF x # None THEN NumOrZero(r[x[1]]) ELSE 0
      conn == SelectSeq(df.columns, LAMBDA c : c \in CONNECTOR_COLS)
      conn_col == _first_nonnull(conn, NaNStr)
  IN IF conn_col # NaNStr THEN ConnectorCount(r[conn_col])
     ELSE IF dc_fast # None \/ lvl2 # None \/ lvl1 # None
       THEN Part(dc_fast) + Part(lvl2) + Part(lvl1)
     ELSE 1

\* Per-row port count, by the three tiers of standardize_afdc.
RowPorts(df, r) ==
  LET dc_fast == _find_column(df, DC_FAST_COLS)
      lvl2 == _find_column(df, LVL2_COLS)
      lvl1 == _find_column(df, LVL1_COLS)
      Part(x) == IF x # None THEN NumOrZero(r[x[1]]) ELSE 0
      conn == SelectSeq(df.columns, LAMBDA c : c \in CONNECTOR_COLS)
      conn_col == _first_nonnull(conn, NaNStr)
  IN IF dc_fast # None \/ lvl2 # None \/ lvl1 # None
       THEN Part(dc_fast) + Part(lvl2) + Part(lvl1)
     ELSE IF conn_col # NaNStr THEN ConnectorCount(r[conn_col])
     ELSE 1

RowDcFast(df, r) ==
  LET dc_fast == _find_column(df, DC_FAST_COLS)
  IN IF dc_fast # None THEN NumOrZero(r[dc_fast[1]]) ELSE 0

\* Order of the (state, snapshot_date) group keys, as groupby sorts them.
KeyLess(a, b) ==
  \/ StrLess(a[1], b[1])
  \/ a[1] = b[1] /\ TsLess(a[2], b[2])

PopulationOf(state_pop, s) ==
  IF \E i \in DOMAIN state_pop : state_pop[i][1] = s
    THEN Some((CHOOSE p \in Range(state_pop) : p[1] = s)[2])
  ELSE None

\* ports / population * 100000, NaN when the state has no population row
PortsPer100k(ports, pop) ==
  IF pop = None THEN None ELSE Some([num |-> ports * 100000, den |-> pop[1]])

\* Variant of DcFastShare that reports a share of 0 for a group without
\* ports.
DcFastShareZero(dc, ports) ==
  IF ports > 0 THEN Some([num |-> dc, den |-> ports])
  ELSE Some([num |-> 0, den |-> 1])

\* np.where(ports > 0, dc_fast_ports / ports, nan)
DcFastShare(dc, ports) ==
  IF ports > 0 THEN Some([num |-> dc, den |-> ports]) ELSE None

\* Variant of ValidState that lets every state value through.
ValidStateUnfiltered(s) == TRUE

\* df[state_col].isin(STATE_ABBR) on one cell
ValidState(s) == s \in STATE_ABBR

\* standardize_afdc: [raised, ports_per_100k, dcfast_share]
standardize_afdc(df0, state_pop) ==
  LET df1 == IF HasCol(df0, FUEL_COL)
               THEN DF(df0.columns, SelectSeq(df0.rows, LAMBDA r : r[FUEL_COL] = "ELEC"))
             ELSE df0
      state_col == _first_nonnull(
                     SelectSeq(df1.columns, LAMBDA c : Contains(STATE_COLS, c)), "State")
      df == DF(df1.columns, SelectSeq(df1.rows, LAMBDA r : ValidState(r[state_col])))
      Key(r) == <<r[state_col], r["snapshot_date"]>>
      keys == StableSort(Dedup([i \in DOMAIN df.rows |-> Key(df.rows[i])]), KeyLess)
      Members(k) == SelectSeq(df.rows, LAMBDA r : Key(r) = k)
      Ports(k) == SumSeq([i \in DOMAIN Members(k) |-> RowPorts(df, Members(k)[i])])
      Dc(k) == SumSeq([i \in DOMAIN Members(k) |-> RowDcFast(df, Members(k)[i])])
      ports_per_100k ==
        DF(<<"state", "date", "ports_per_100k">>,
           [i \in DOMAIN keys |->
              [state |-> keys[i][1], date |-> keys[i][2],
               ports_per_100k |->
                 PortsPer100k(Ports(keys[i]), PopulationOf(state_pop, keys[i][1]))]])
      dcfast_share ==
        DF(<<"state", "date", "dcfast_share">>,
           [i \in DOMAIN keys |->
              [state |-> keys[i][1], date |-> keys[i][2],
               dcfast_share |-> DcFastShare(Dc(keys[i]), Ports(keys[i]))]])
  IN IF IsEmpty(df0)
       THEN [raised |-> FALSE, ports_per_100k |-> EmptyDF, dcfast_share |-> EmptyDF]
     ELSE IF ~HasCol(df1, state_col)
       THEN [raised |-> TRUE, ports_per_100k |-> EmptyDF, dcfast_share |-> EmptyDF]
     ELSE [raised |-> FALSE, ports_per_100k |-> ports_per_100k,
           dcfast_share |-> dcfast_share]

\* ------------------------------------------------------------------------
\* EIA: residential electricity price and sales
\* ------------------------------------------------------------------------
\* _safe_month_parse on the header labels the model uses: the label and the
\* month the strptime formats ("%Y-%m", "%b-%Y", "%m/%Y", "%Y M%m") give.
\* Any other label ("Total", "") parses to None.
MONTH_LABELS ==
  << <<"2024-01", <<2024, 1, 1>> >>, <<"Jan-2024", <<2024, 1, 1>> >>,
     <<"1/2024", <<2024, 1, 1>> >>, <<"2024 M01", <<2024, 1, 1>> >>,
     <<"2024-02", <<2024, 2, 1>> >>, <<"Feb-2024", <<2024, 2, 1>> >> >>

_safe_month_parse(label) ==
  IF \E i \in DOMAIN MONTH_LABELS : MONTH_LABELS[i][1] = label
    THEN Some((CHOOSE e \in Range(MONTH_LABELS) : e[1] = label)[2])
  ELSE None

\* "residential" in str(c[0]).lower(), on the sector labels the model uses
RESIDENTIAL_LABELS == {"Residential", "RESIDENTIAL", "Residential Sector"}

IsResidential(sector) == sector \in RESIDENTIAL_LABELS

\* df["location"].map(STATE_NAME_TO_ABBR): the code, or NaN
MapStateName(location) ==
  IF \E i \in DOMAIN STATE_NAME_TO_ABBR : STATE_NAME_TO_ABBR[i][1] = location
    THEN (CHOOSE e \in Range(STATE_NAME_TO_ABBR) : e[1] = location)[2]
  ELSE NaNStr

\* A workbook: [exists, readable, cols, rows]; cols are the (sector, label)
\* header pairs right of the state column, a row is [location, cells] with
\* one cell [k |-> "num" | "nan" | "text", v |-> number] per column.
NumCell(v) == [k |-> "num", v |-> v]

NanCell == [k |-> "nan", v |-> 0]

TextCell == [k |-> "text", v |-> 0]

\* The tidy (state, month, value) rows of one workbook row.
TidyRows(wb, r, value_col) ==
  LET state == MapStateName(r.location)
      residential_cols == SelectSeq([i \in DOMAIN wb.cols |-> i],
                                    LAMBDA i : IsResidential(wb.cols[i].sector))
      Emits(i) == /\ _safe_month_parse(wb.cols[i].label) # None
                  /\ r.cells[i].k = "num"
      kept == SelectSeq(residential_cols, Emits)
  IN [j \in DOMAIN kept |->
        [c \in {"state", "month", value_col} |->
           IF c = "state" THEN state
           ELSE IF c = "month" THEN _safe_month_parse(wb.cols[kept[j]].label)[1]
           ELSE Some(r.cells[kept[j]].v)]]

\* Shared body of ingest_eia_price and ingest_eia_sales: [raised, df].
IngestEia(wb, value_col) ==
  LET mapped == SelectSeq(wb.rows, LAMBDA r : MapStateName(r.location) # NaNStr)
      has_res == \E i \in DOMAIN wb.cols : IsResidential(wb.cols[i].sector)
      rows == FlattenSeq([i \in DOMAIN mapped |-> TidyRows(wb, mapped[i], value_col)])
  IN IF ~wb.exists THEN [raised |-> FALSE, df |-> EmptyDF]
     ELSE IF ~wb.readable THEN [raised |-> TRUE, df |-> EmptyDF]
     ELSE IF ~has_res THEN [raised |-> FALSE, df |-> EmptyDF]
     ELSE IF rows = <<>> THEN [raised |-> FALSE, df |-> EmptyDF]
     ELSE [raised |-> FALSE, df |-> DF(<<"state", "month", value_col>>, rows)]

ingest_eia_price(xlsx) == IngestEia(xlsx, "cents_per_kWh")

ingest_eia_sales(xlsx) == IngestEia(xlsx, "MWh")

\* Row order of sort_values(["state", "month"])
StateMonthLess(a, b) ==
  \/ StrLess(a["state"], b["state"])
  \/ a["state"] = b["state"] /\ TsLess(a["month"], b["month"])

SortStateMonth(df) == DF(df.columns, StableSort(df.rows, StateMonthLess))

\* standardize_eia: [price, sales]
standardize_eia(price_df, sales_df) ==
  LET price == SortStateMonth(price_df)
      sorted == SortStateMonth(sales_df)
      PerCustomer(r) ==
        [c \in {"state", "month", "MWh_per_customer"} |->
           IF c = "MWh_per_customer"
             THEN Some([num |-> r["MWh"][1], den |-> r["customers"][1]])
           ELSE r[c]]
      sales == IF HasCol(sorted, "customers")
                 THEN DF(<<"state", "month", "MWh_per_customer">>,
                         [i \in DOMAIN sorted.rows |-> PerCustomer(sorted.rows[i])])
               ELSE sorted
  IN [price |-> price, sales |-> sales]

\* ------------------------------------------------------------------------
\* NHTSA: recalls
\* ------------------------------------------------------------------------
DIGITS == <<"0", "1", "2", "3", "4", "5", "6", "7", "8", "9">>

UPPER_LETTERS ==
  {"A", "B", "C", "D", "E", "F", "G", "H", "I", "J", "K", "L", "M", "N", "O",
   "P", "Q", "R", "S", "T", "U", "V", "W", "X", "Y", "Z"}

IsDigit(c) == Contains(DIGITS, c)

DigitVal(c) == (CHOOSE i \in DOMAIN DIGITS : DIGITS[i] = c) - 1

\* _parse_nhtsa_date: the identifier is None (NaN) or <<characters>>;
\* re.match(r"(\d{2})[A-Z]") anchors at the start only.
_parse_nhtsa_date(nhtsa_id) ==
  IF nhtsa_id = None THEN None
  ELSE LET t == nhtsa_id[1]
       IN IF Len(t) >= 3 /\ IsDigit(t[1]) /\ IsDigit(t[2]) /\ t[3] \in UPPER_LETTERS
            THEN Some(<<2000 + 10 * DigitVal(t[1]) + DigitVal(t[2]), 1, 1>>)
          ELSE None

ingest_recalls(files) ==
  LET present == SelectSeq(files, LAMBDA f : f.exists)
      frames == [i \in DOMAIN present |-> DF(present[i].columns, present[i].rows)]
  IN IF frames = <<>> THEN EmptyDF ELSE Concat(frames)

\* str.upper() and str.upper().strip() on the strings the model uses, as
\* (text, upper, upper and stripped); any other string is its own image.
CASE_TABLE ==
  << <<"Make", "MAKE", "MAKE">>, <<" make ", " MAKE ", "MAKE">>,
     <<"tesla", "TESLA", "TESLA">>, <<" Tesla ", " TESLA ", "TESLA">>,
     <<" TESLA", " TESLA", "TESLA">>, <<"Rivian", "RIVIAN", "RIVIAN">>,
     <<" tesla ", " TESLA ", "TESLA">>, <<"honda", "HONDA", "HONDA">>,
     <<"nhtsa id", "NHTSA ID", "NHTSA ID">>,
     <<"Model Year", "MODEL YEAR", "MODEL YEAR">>,
     <<"Report Received Date", "REPORT RECEIVED DATE", "REPORT RECEIVED DATE">> >>

Upper(t) ==
  IF \E i \in DOMAIN CASE_TABLE : CASE_TABLE[i][1] = t
    THEN (CHOOSE e \in Range(CASE_TABLE) : e[1] = t)[2]
  ELSE t

UpperStrip(t) ==
  IF \E i \in DOMAIN CASE_TABLE : CASE_TABLE[i][1] = t
    THEN (CHOOSE e \in Range(CASE_TABLE) : e[1] = t)[3]
  ELSE IF \E i \in DOMAIN CASE_TABLE : CASE_TABLE[i][2] = t
    THEN (CHOOSE e \in Range(CASE_TABLE) : e[2] = t)[3]
  ELSE t

MAKE_COLS == {"MAKE", "MANUFACTURER NAME", "MFR_NAME"}

\* Upper-cased column names that contain one of "REPORT RECEIVED DATE",
\* "RECORD CREATION DATE", "DATE", "NHTSA ID".
DATE_COLS ==
  {"REPORT RECEIVED DATE", "RECORD CREATION DATE", "DATE", "RECALL DATE",
   "NHTSA ID"}

\* Columns whose name contains "NHTSA"
NHTSA_COLS == {"NHTSA ID"}

\* df.columns = df.columns.str.upper().str.strip()
NormalizeColumns(df) ==
  LET Raw(c) == CHOOSE i \in DOMAIN df.columns : UpperStrip(df.columns[i]) = c
      cols == [i \in DOMAIN df.columns |-> UpperStrip(df.columns[i])]
  IN DF(cols,
        [j \in DOMAIN df.rows |->
           [c \in Range(cols) |-> df.rows[j][df.columns[Raw(c)]]]])

\* Group keys (make, second key) in groupby order.
MakeKeyLess(a, b) ==
  \/ StrLess(a[1], b[1])
  \/ a[1] = b[1] /\ TsLess(a[2], b[2])

\* Order of optional model years, NaN last.
OptLess(a, b) ==
  IF a = None THEN FALSE ELSE IF b = None THEN TRUE ELSE a[1] < b[1]

MakeYearLess(a, b) ==
  \/ StrLess(a[1], b[1])
  \/ a[1] = b[1] /\ OptLess(a[2], b[2])

\* rolling(12, min_periods=1).sum() at position i of a series of counts
ROLLING_WINDOW == 12

\* Variant of Rolling that reports the count of the current row alone.
RollingCurrentOnly(counts, i) == counts[i]

Rolling(counts, i) ==
  SumSeq(SubSeq(counts, IF i > ROLLING_WINDOW THEN i - ROLLING_WINDOW + 1 ELSE 1, i))

\* The monthly branch: filings per (make, month) and their rolling sum.
\* dated: the rows with a month; mkeys: their (make, month) keys in order.
MonthlyTable(dated, mkeys, date_col) ==
  LET Month(r) == IF date_col \in NHTSA_COLS THEN _parse_nhtsa_date(r[date_col])
                  ELSE Some(ToMonth(r[date_col][1]))
      Count(k) == Len(SelectSeq(dated, LAMBDA r : <<r["make"], Month(r)[1]>> = k))
      \* positions of the make's rows of the monthly table, up to row i
      Series(i) == SelectSeq([j \in 1..i |-> j], LAMBDA j : mkeys[j][1] = mkeys[i][1])
      Counts(i) == [n \in DOMAIN Series(i) |-> Count(mkeys[Series(i)[n]])]
      Rolled(i) == IF mkeys[i][1] = NaNStr THEN None
                   ELSE Some(Rolling(Counts(i), Len(Series(i))))
  IN DF(<<"make", "month", "recall_count_12m", "recalls_per_10k">>,
        [i \in DOMAIN mkeys |->
           [make |-> mkeys[i][1], month |-> mkeys[i][2],
            recall_count_12m |-> Rolled(i), recalls_per_10k |-> None]])

\* Variant of YearlyTable that gives up, as the missing make column does.
YearlyTableEmpty(sdf_rows) == EmptyDF

\* The fallback branches: filings per (make, model year), or per make.
YearlyTable(sdf_rows) ==
  LET YKey(r) == <<r["make"], r["MODEL YEAR"]>>
      ykeys == StableSort(Dedup([i \in DOMAIN sdf_rows |-> YKey(sdf_rows[i])]),
                          MakeYearLess)
  IN DF(<<"make", "MODEL YEAR", "recall_count">>,
        [i \in DOMAIN ykeys |->
           [c \in {"make", "MODEL YEAR", "recall_count"} |->
              IF c = "make" THEN ykeys[i][1]
              ELSE IF c = "MODEL YEAR" THEN ykeys[i][2]
              ELSE Len(SelectSeq(sdf_rows, LAMBDA r : YKey(r) = ykeys[i]))]])

TotalsTable(sdf_rows) ==
  LET tkeys == StableSort(Dedup([i \in DOMAIN sdf_rows |-> sdf_rows[i]["make"]]), StrLess)
  IN DF(<<"make", "recall_count">>,
        [i \in DOMAIN tkeys |->
           [make |-> tkeys[i],
            recall_count |-> Len(SelectSeq(sdf_rows, LAMBDA r : r["make"] = tkeys[i]))]])

\* standardize_recalls from the date-column lookup on: cols and sdf_rows are
\* the columns and rows of sdf after the make filter.
RecallsByDate(cols, sdf_rows) ==
  LET date_col == _first_nonnull(SelectSeq(cols, LAMBDA c : c \in DATE_COLS), NaNStr)
      Month(r) == IF date_col \in NHTSA_COLS THEN _parse_nhtsa_date(r[date_col])
                  ELSE IF r[date_col] = None THEN None
                  ELSE Some(ToMonth(r[date_col][1]))
      MKey(r) == <<r["make"], Month(r)[1]>>
  IN IF date_col # NaNStr
       THEN Only({Only({MonthlyTable(dated, mkeys, date_col) :
                    mkeys \in {StableSort(Dedup([i \in DOMAIN dated |-> MKey(dated[i])]),
                                          MakeKeyLess)}}) :
              dated \in {SelectSeq(sdf_rows, LAMBDA r : Month(r) # None)}})
     ELSE IF Contains(cols, "MODEL YEAR") THEN YearlyTable(sdf_rows)
     ELSE TotalsTable(sdf_rows)

\* standardize_recalls from the make-column lookup on, df with its column
\* names normalized.
RecallsByMake(df, makes) ==
  LET make_col == _first_nonnull(SelectSeq(df.columns, LAMBDA c : c \in MAKE_COLS),
                                 NaNStr)
      Rename(c) == IF c = make_col THEN "make" ELSE c
      cols == [i \in DOMAIN df.columns |-> Rename(df.columns[i])]
      Renamed(r) ==
        [c \in Range(cols) |->
           IF c = "make"
             THEN (IF r[make_col] = NaNStr THEN NaNStr ELSE UpperStrip(r[make_col]))
           ELSE r[c]]
      makes_upper == [i \in DOMAIN makes |-> Upper(makes[i])]
      Kept(r) == makes # <<>> => Contains(makes_upper, UpperStrip(r[make_col]))
  IN IF make_col = NaNStr THEN EmptyDF
     ELSE Only({RecallsByDate(cols, sdf_rows) :
            sdf_rows \in {[j \in DOMAIN SelectSeq(df.rows, Kept) |->
                             Renamed(SelectSeq(df.rows, Kept)[j])]}})

\* standardize_recalls(df, makes): makes is a list, <<>> for None.
standardize_recalls(df0, makes) ==
  IF IsEmpty(df0) THEN EmptyDF
  ELSE Only({RecallsByMake(df, makes) : df \in {NormalizeColumns(df0)}})

\* The caller's table after standardize_recalls(df, makes) has returned: the
\* assignment to df.columns acts on the object the caller passed.
RecallsArgumentAfter(df0) ==
  IF IsEmpty(df0) THEN df0 ELSE NormalizeColumns(df0)

\* ------------------------------------------------------------------------
\* Orchestration: run_all
\* ------------------------------------------------------------------------
F_PORTS == "afdc_ports_per_100k_by_state_year.csv"

F_DCFAST == "afdc_dcfast_share_by_state_year.csv"

F_PRICE == "eia_res_price_residential_state_month.csv"

F_SALES == "eia_res_sales_per_customer_state_month.csv"

F_RECALLS == "recalls_per_10k_by_make_month_12m.csv"

F_MASTER == "master_panel_state_month.csv"

OUTPUT_FILES == {F_PORTS, F_DCFAST, F_PRICE, F_SALES, F_RECALLS, F_MASTER}

\* The make allow-list run_all passes to standardize_recalls
RUN_ALL_MAKES == <<"RIVIAN", "TESLA", "FORD", "CHEVROLET", "GMC">>

\* p100k / dfs of the master-panel step: month added, date dropped
WithMonth(df, value_col) ==
  DF(<<"state", value_col, "month">>,
     [i \in DOMAIN df.rows |->
        [c \in {"state", value_col, "month"} |->
           IF c = "month" THEN ToMonth(df.rows[i]["date"]) ELSE df.rows[i][c]]])

\* Variant of MergeLeft that joins as how="inner": unmatched left rows go.
MergeInner(left, right) ==
  LET extra == SelectSeq(right.columns, LAMBDA c : c \notin {"state", "month"})
      Matches(l) == SelectSeq(right.rows, LAMBDA r :
                      r["state"] = l["state"] /\ r["month"] = l["month"])
      Joined(l, r) == [c \in (DOMAIN l) \cup Range(extra) |->
                         IF c \in DOMAIN l THEN l[c] ELSE r[c]]
      Out(l) == [j \in DOMAIN Matches(l) |-> Joined(l, Matches(l)[j])]
  IN DF(left.columns \o extra,
        FlattenSeq([i \in DOMAIN left.rows |-> Out(left.rows[i])]))

\* left.merge(right, on=["state", "month"], how="left"): every left row, in
\* order, once per matching right row (in the right's order), or once with
\* nulls when nothing matches.
MergeLeft(left, right) ==
  LET extra == SelectSeq(right.columns, LAMBDA c : c \notin {"state", "month"})
      Matches(l) == SelectSeq(right.rows, LAMBDA r :
                      r["state"] = l["state"] /\ r["month"] = l["month"])
      Joined(l, r) == [c \in (DOMAIN l) \cup Range(extra) |->
                         IF c \in DOMAIN l THEN l[c] ELSE r[c]]
      Unmatched(l) == [c \in (DOMAIN l) \cup Range(extra) |->
                         IF c \in DOMAIN l THEN l[c] ELSE None]
      Out(l) == IF Matches(l) = <<>> THEN <<Unmatched(l)>>
                ELSE [j \in DOMAIN Matches(l) |-> Joined(l, Matches(l)[j])]
  IN DF(left.columns \o extra,
        FlattenSeq([i \in DOMAIN left.rows |-> Out(left.rows[i])]))

\* Variant of MasterPrecondition that forgets the station table.
MasterPreconditionPriceOnly(ports_df, price_df) == ~IsEmpty(price_df)

\* Variant of MasterPrecondition that forgets the price table.
MasterPreconditionPortsOnly(ports_df, price_df) == ~IsEmpty(ports_df)

\* The condition under which run_all builds the master panel
MasterPrecondition(ports_df, price_df) == ~IsEmpty(ports_df) /\ ~IsEmpty(price_df)

\* The master panel built inside the try block of run_all
BuildMaster(price_df, ports_df, dcfast_df, sales_df) ==
  LET p100k == WithMonth(ports_df, "ports_per_100k")
      dfs == WithMonth(dcfast_df, "dcfast_share")
  IN Only({Only({IF ~IsEmpty(sales_df) THEN MergeLeft(m2, sales_df) ELSE m2 :
                   m2 \in {MergeLeft(m1, dfs)}}) :
             m1 \in {MergeLeft(price_df, p100k)}})

\* ---- inputs the runs are explored on -----------------------------------
\* "alt_fuel_stations (Jan 7 2024).csv" and "... (Jan 20 2024).csv"
AFDC_NAMES ==
  {[paren |-> <<Mon(1), Num(d, IF d < 10 THEN 1 ELSE 2), Num(2024, 4)>>,
    tokens |-> <<Word, Word, Word, Mon(1), Num(d, IF d < 10 THEN 1 ELSE 2), Word>>] :
     d \in {7, 20}}

AFDC_HEADER == <<"Fuel Type Code", "State", "EV DC Fast Count", "EV Level2 EVSE Num">>

AFDC_HEADER_NO_STATE == <<"Fuel Type Code", "EV DC Fast Count">>

StationRow(state) ==
  [c \in Range(AFDC_HEADER) |->
     IF c = "Fuel Type Code" THEN "ELEC"
     ELSE IF c = "State" THEN state
     ELSE IF c = "EV DC Fast Count" THEN Some(1)
     ELSE Some(2)]

StationRowNoState ==
  [c \in Range(AFDC_HEADER_NO_STATE) |->
     IF c = "Fuel Type Code" THEN "ELEC" ELSE Some(1)]

MissingFile == [exists |-> FALSE, name |-> [paren |-> <<>>, tokens |-> <<>>],
                columns |-> <<>>, rows |-> <<>>]

AfdcContents ==
  {[exists |-> TRUE, name |-> n, columns |-> AFDC_HEADER, rows |-> rs] :
     n \in AFDC_NAMES,
     rs \in [1..MaxStationRows -> {StationRow(st) : st \in {"CA", "XX"}}]}
  \cup
  {[exists |-> TRUE, name |-> CHOOSE n \in AFDC_NAMES : n.paren[2].v = 7,
    columns |-> AFDC_HEADER_NO_STATE, rows |-> <<StationRowNoState>>]}

\* The file lists whose i-th file exists exactly when flags[i] says so.
FilesFor(flags, contents) ==
  {fs \in [DOMAIN flags -> contents \cup {MissingFile}] :
     \A i \in DOMAIN flags : fs[i].exists = flags[i]}

WB_COLS ==
  {[sector |-> "Residential", label |-> "2024-01"],
   [sector |-> "Commercial", label |-> "2024-01"]}

WB_LOCATIONS == {"California", "Texas", "Guam"}

MissingWb == [exists |-> FALSE, readable |-> FALSE, cols |-> <<>>, rows |-> <<>>]

UnreadableWb == [exists |-> TRUE, readable |-> FALSE, cols |-> <<>>, rows |-> <<>>]

ReadableWbs(v) ==
  {[exists |-> TRUE, readable |-> TRUE, cols |-> cs,
    rows |-> [i \in DOMAIN ls |->
                [location |-> ls[i], cells |-> [j \in DOMAIN cs |-> NumCell(v)]]]] :
     cs \in [1..MaxWbCols -> WB_COLS], ls \in [1..MaxWbRows -> WB_LOCATIONS]}

WbFor(status, v) ==
  IF status = "missing" THEN {MissingWb}
  ELSE IF status = "unreadable" THEN {UnreadableWb}
  ELSE ReadableWbs(v)

RECALL_HEADERS == {<<"NHTSA ID", "MAKE">>, <<"NHTSA ID", "MODEL">>}

NHTSA_IDS == {Some(<<"2", "0", "E", "0", "0", "3">>), Some(<<"i", "n", "v">>)}

RecallRows(h) ==
  {[c \in Range(h) |-> IF c = "NHTSA ID" THEN id ELSE m] :
     id \in NHTSA_IDS, m \in {"RIVIAN", "HONDA"}}

RecallContents ==
  UNION {{[exists |-> TRUE, name |-> [paren |-> <<>>, tokens |-> <<>>],
           columns |-> h, rows |-> rs] : rs \in [1..MaxRecallRows -> RecallRows(h)]} :
         h \in RECALL_HEADERS}

\* ---- state ---------------------------------------------------------------
\* pc: the block run_all is about to execute, "done" after its last line,
\*   "raised" when an exception left it; raised_by: the block that raised;
\* master_error: the except branch of the master-panel block was taken;
\* files: the content of each output file, None while it does not exist;
\* written: the names passed to to_csv so far, in order;
\* call: a direct call of one function of the module (its name, the
\*   arguments, the caller's tables after the call, the result), NoCall in
\*   a run of run_all; pc is then "call" before and "returned" after it;
\* the other variables are the local variables of run_all.
VARIABLES pc, raised_by, master_error, paths, out_dir_exists, files, written,
          afdc_raw, ports_per_100k, dcfast_share, price, sales, recalls,
          recalls_std, call

vars == <<pc, raised_by, master_error, paths, out_dir_exists, files, written,
          afdc_raw, ports_per_100k, dcfast_share, price, sales, recalls,
          recalls_std, call>>

NoCall == [fn |-> "", args |-> <<>>, after |-> <<>>, result |-> <<>>]

locals == <<afdc_raw, ports_per_100k, dcfast_share, price, sales, recalls,
            recalls_std>>

WB_STATUS == {"missing", "unreadable", "ok"}

Init ==
  /\ pc = "mkdir"
  /\ raised_by = ""
  /\ master_error = FALSE
  /\ paths \in [afdc_files : [1..MaxAfdcFiles -> BOOLEAN],
                eia_price_xlsx : WB_STATUS,
                eia_sales_xlsx : WB_STATUS,
                recall_files : [1..MaxRecallFiles -> BOOLEAN]]
  /\ out_dir_exists = FALSE
  /\ files = [f \in OUTPUT_FILES |-> None]
  /\ written = <<>>
  /\ afdc_raw = EmptyDF
  /\ ports_per_100k = EmptyDF
  /\ dcfast_share = EmptyDF
  /\ price = EmptyDF
  /\ sales = EmptyDF
  /\ recalls = EmptyDF
  /\ recalls_std = EmptyDF
  /\ call = NoCall

\* df.to_csv(out_dir / name, index=False), one after the other
Write(fs, ws) ==
  /\ files' = [f \in OUTPUT_FILES |->
                 IF \E i \in DOMAIN ws : ws[i][1] = f
                   THEN Some((CHOOSE w \in Range(ws) : w[1] = f)[2])
                 ELSE fs[f]]
  /\ written' = written \o [i \in DOMAIN ws |-> ws[i][1]]

\* Variant of Mkdir that does not create the directory.
MkdirOmitted ==
  /\ pc = "mkdir"
  /\ pc' = "afdc"
  /\ UNCHANGED <<raised_by, master_error, paths, call, out_dir_exists, files, written,
                 locals>>

\* out_dir.mkdir(parents=True, exist_ok=True)
Mkdir ==
  /\ pc = "mkdir"
  /\ out_dir_exists' = TRUE
  /\ pc' = "afdc"
  /\ UNCHANGED <<raised_by, master_error, paths, call, files, written, locals>>

\* The AFDC block: ingest, standardize, write both station tables. The
\* ValueError of standardize_afdc is not caught: it leaves run_all.
StageAFDC ==
  /\ pc = "afdc"
  /\ \E fs \in FilesFor(paths.afdc_files, AfdcContents) :
     \E raw \in {ingest_afdc_historical(fs)} :
     \E std \in {standardize_afdc(raw, DEFAULT_STATE_POP)} :
          /\ afdc_raw' = raw
          /\ IF IsEmpty(raw)
               THEN /\ ports_per_100k' = EmptyDF
                    /\ dcfast_share' = EmptyDF
                    /\ pc' = "eia"
                    /\ UNCHANGED <<raised_by, files, written>>
             ELSE IF std.raised
               THEN /\ pc' = "raised"
                    /\ raised_by' = "afdc"
                    /\ UNCHANGED <<ports_per_100k, dcfast_share, files, written>>
             ELSE /\ ports_per_100k' = std.ports_per_100k
                  /\ dcfast_share' = std.dcfast_share
                  /\ Write(files, << <<F_PORTS, std.ports_per_100k>>,
                                     <<F_DCFAST, std.dcfast_share>> >>)
                  /\ pc' = "eia"
                  /\ UNCHANGED raised_by
  /\ UNCHANGED <<master_error, paths, call, out_dir_exists, price, sales, recalls,
                 recalls_std>>

\* The EIA block: ingest price then sales (an exception of read_excel leaves
\* run_all), standardize only when both are non-empty, write what is non-empty.
StageEIA ==
  /\ pc = "eia"
  /\ \E wp \in WbFor(paths.eia_price_xlsx, 12), ws \in WbFor(paths.eia_sales_xlsx, 900) :
       LET p == IF wp.exists THEN ingest_eia_price(wp)
                ELSE [raised |-> FALSE, df |-> EmptyDF]
           s == IF ws.exists THEN ingest_eia_sales(ws)
                ELSE [raised |-> FALSE, df |-> EmptyDF]
           std == standardize_eia(p.df, s.df)
           both == ~IsEmpty(p.df) /\ ~IsEmpty(s.df)
           price1 == IF both THEN std.price ELSE p.df
           sales1 == IF both THEN std.sales ELSE s.df
       IN IF p.raised \/ s.raised
            THEN /\ pc' = "raised"
                 /\ raised_by' = "eia"
                 /\ UNCHANGED <<price, sales, files, written>>
          ELSE /\ price' = price1
               /\ sales' = sales1
               /\ Write(files,
                        (IF ~IsEmpty(price1) THEN << <<F_PRICE, price1>> >> ELSE <<>>)
                        \o (IF ~IsEmpty(sales1) THEN << <<F_SALES, sales1>> >> ELSE <<>>))
               /\ pc' = "recalls"
               /\ UNCHANGED raised_by
  /\ UNCHANGED <<master_error, paths, call, out_dir_exists, afdc_raw, ports_per_100k,
                 dcfast_share, recalls, recalls_std>>

\* The NHTSA block
StageRecalls ==
  /\ pc = "recalls"
  /\ \E fs \in FilesFor(paths.recall_files, RecallContents) :
     \E raw \in {ingest_recalls(fs)} :
     \E std \in {IF IsEmpty(raw) THEN EmptyDF
                 ELSE standardize_recalls(raw, RUN_ALL_MAKES)} :
       /\ recalls' = RecallsArgumentAfter(raw)
       /\ recalls_std' = std
       /\ Write(files, IF ~IsEmpty(std) THEN << <<F_RECALLS, std>> >> ELSE <<>>)
  /\ pc' = "master"
  /\ UNCHANGED <<raised_by, master_error, paths, call, out_dir_exists, afdc_raw,
                 ports_per_100k, dcfast_share, price, sales>>

\* Variant of StageMaster without the try / except: the exception leaves
\* run_all.
StageMasterUncaught ==
  /\ pc = "master"
  /\ \E fails \in BOOLEAN :
       IF MasterPrecondition(ports_per_100k, price)
         THEN IF fails
                THEN /\ pc' = "raised"
                     /\ raised_by' = "master"
                     /\ UNCHANGED <<master_error, files, written>>
              ELSE /\ Write(files, << <<F_MASTER,
                          BuildMaster(price, ports_per_100k, dcfast_share, sales)>> >>)
                   /\ pc' = "done"
                   /\ UNCHANGED <<raised_by, master_error>>
       ELSE /\ pc' = "done"
            /\ UNCHANGED <<raised_by, master_error, files, written>>
  /\ UNCHANGED <<paths, call, out_dir_exists, locals>>

\* The master-panel block: try / except Exception around the join and its
\* to_csv; fails stands for an exception raised inside the try block.
StageMaster ==
  /\ pc = "master"
  /\ \E fails \in BOOLEAN :
       IF MasterPrecondition(ports_per_100k, price)
         THEN IF fails
                THEN /\ master_error' = TRUE
                     /\ UNCHANGED <<files, written>>
              ELSE /\ Write(files, << <<F_MASTER,
                          BuildMaster(price, ports_per_100k, dcfast_share, sales)>> >>)
                   /\ UNCHANGED master_error
       ELSE UNCHANGED <<master_error, files, written>>
  /\ pc' = "done"
  /\ UNCHANGED <<raised_by, paths, call, out_dir_exists, locals>>

Next == Mkdir \/ StageAFDC \/ StageEIA \/ StageRecalls \/ StageMaster

Spec == Init /\ [][Next]_vars

\* ------------------------------------------------------------------------
\* Direct calls of the standardizers and helpers
\* ------------------------------------------------------------------------
\* The variables of run_all, at rest while a function is called directly.
RunAllIdle ==
  /\ raised_by = ""
  /\ master_error = FALSE
  /\ paths = [afdc_files |-> <<>>, eia_price_xlsx |-> "missing",
              eia_sales_xlsx |-> "missing", recall_files |-> <<>>]
  /\ out_dir_exists = FALSE
  /\ files = [f \in OUTPUT_FILES |-> None]
  /\ written = <<>>
  /\ afdc_raw = EmptyDF
  /\ ports_per_100k = EmptyDF
  /\ dcfast_share = EmptyDF
  /\ price = EmptyDF
  /\ sales = EmptyDF
  /\ recalls = EmptyDF
  /\ recalls_std = EmptyDF

run_all_vars ==
  <<raised_by, master_error, paths, out_dir_exists, files, written, locals>>

\* A call about to be made: fn(args).
Pending(fn, args) == [fn |-> fn, args |-> args, after |-> <<>>, result |-> <<>>]

\* The call returns: after holds the caller's tables, result what fn returned.
Return(after, result) ==
  /\ pc = "call"
  /\ call' = [call EXCEPT !.after = after, !.result = result]
  /\ pc' = "returned"
  /\ UNCHANGED run_all_vars

Returned(fn) == pc = "returned" /\ call.fn = fn

\* The rows over a header: each cell drawn from cells[column].
RECURSIVE RowsOver(_, _)
RowsOver(header, cells) ==
  IF header = <<>> THEN {[c \in {} |-> None]}
  ELSE {[c \in (DOMAIN r) \cup {header[1]} |-> IF c = header[1] THEN v ELSE r[c]] :
          r \in RowsOver(Tail(header), cells), v \in cells[header[1]]}

\* The frames with the given header and up to n such rows.
Frames(header, cells, n) ==
  {DF(header, rs) : rs \in SeqsUpTo(RowsOver(header, cells), n)}

\* ---- direct calls of standardize_afdc -----------------------------------
STATION_CALL_HEADERS ==
  {<<"State", "EV DC Fast Count", "EV Level2 EVSE Num", "EV Level1 EVSE Num",
     "snapshot_date">>,
   <<"State", "EV Level2 EVSE Num", "EV Connector Types", "snapshot_date">>,
   <<"STATE", "EV Connector Types", "snapshot_date">>,
   <<"state", "snapshot_date">>,
   <<"State", "ev dc fast count", "snapshot_date">>,
   <<" State ", "EV DC Fast Count", "snapshot_date">>,
   <<"State", "EV Fast Count", "EV DC Fast Count", "snapshot_date">>}

STATION_CELLS ==
  [c \in UNION {Range(h) : h \in STATION_CALL_HEADERS} |->
     IF c \in {"State", "STATE", "state", " State "} THEN {"CA", "TX", "XX"}
     ELSE IF c \in {"EV DC Fast Count", "ev dc fast count"}
       THEN {None, Some(0), Some(3), Some(5)}
     ELSE IF c = "EV Fast Count" THEN {Some(2)}
     ELSE IF c = "EV Level2 EVSE Num" THEN {Some(0), Some(8), Some(10)}
     ELSE IF c = "EV Level1 EVSE Num" THEN {Some(0)}
     ELSE IF c = "EV Connector Types"
       THEN {None, Some(<<"">>), Some(<<"J1772", " ", "CCS">>)}
     ELSE {<<2024, 1, 7>>}]

StationFrames ==
  UNION {Frames(h, STATION_CELLS, MaxCallRows) : h \in STATION_CALL_HEADERS}

InitAfdcCall ==
  /\ pc = "call"
  /\ call \in {Pending("standardize_afdc", <<df>>) : df \in StationFrames}
  /\ RunAllIdle

CallStandardizeAfdc ==
  /\ call.fn = "standardize_afdc"
  /\ Return(<<call.args[1]>>, standardize_afdc(call.args[1], DEFAULT_STATE_POP))

NextAfdc == CallStandardizeAfdc

SpecAfdc == InitAfdcCall /\ [][NextAfdc]_vars

\* ---- direct calls of standardize_eia ------------------------------------
EiaPriceFrames == {EmptyDF} \cup {ingest_eia_price(wb).df : wb \in ReadableWbs(12)}

EiaSalesFrames == {EmptyDF} \cup {ingest_eia_sales(wb).df : wb \in ReadableWbs(900)}

InitEiaCall ==
  /\ pc = "call"
  /\ call \in {Pending("standardize_eia", <<p, s>>) :
                 p \in EiaPriceFrames, s \in EiaSalesFrames}
  /\ RunAllIdle

CallStandardizeEia ==
  /\ call.fn = "standardize_eia"
  /\ Return(<<call.args[1], call.args[2]>>,
            standardize_eia(call.args[1], call.args[2]))

\* ---- direct calls of standardize_recalls --------------------------------
RECALL_CALL_HEADERS ==
  {<<"NHTSA ID", "MAKE">>,
   <<"Make", "nhtsa id">>,
   <<"MAKE", "REPORT RECEIVED DATE">>,
   <<"NHTSA ID", "MAKE", "REPORT RECEIVED DATE">>,
   <<"MAKE", "RECORD CREATION DATE", "REPORT RECEIVED DATE">>,
   <<"MAKE", "MODEL YEAR">>,
   <<"MAKE", "MODEL">>,
   <<"MODEL", "NHTSA ID">>}

RECALL_CELLS ==
  [c \in UNION {Range(h) : h \in RECALL_CALL_HEADERS} |->
     IF c \in {"MAKE", "Make"} THEN {" Tesla ", "HONDA", NaNStr}
     ELSE IF c \in {"NHTSA ID", "nhtsa id"}
       THEN {Some(<<"2", "0", "E", "0", "0", "3">>),
             Some(<<"2", "1", "V", "0", "0", "1">>), Some(<<"i", "n", "v">>)}
     ELSE IF c = "REPORT RECEIVED DATE"
       THEN {None, Some(<<2020, 1, 15>>), Some(<<2020, 2, 3>>)}
     ELSE IF c = "RECORD CREATION DATE" THEN {Some(<<2019, 12, 30>>)}
     ELSE IF c = "MODEL YEAR" THEN {None, Some(2020), Some(2021)}
     ELSE {"X"}]

RecallFrames ==
  UNION {Frames(h, RECALL_CELLS, MaxCallRows) : h \in RECALL_CALL_HEADERS}

\* The makes argument: None (<<>>) or an allow-list
RECALL_CALL_MAKES == {<<>>, <<"tesla">>, <<" tesla ">>, <<"TESLA", "honda">>}

InitRecallsCall ==
  /\ pc = "call"
  /\ call \in {Pending("standardize_recalls", <<df, makes>>) :
                 df \in RecallFrames, makes \in RECALL_CALL_MAKES}
  /\ RunAllIdle

CallStandardizeRecalls ==
  /\ call.fn = "standardize_recalls"
  /\ Return(<<RecallsArgumentAfter(call.args[1])>>,
            standardize_recalls(call.args[1], call.args[2]))

NextRecalls == CallStandardizeRecalls

SpecRecalls == InitRecallsCall /\ [][NextRecalls]_vars

\* ---- direct calls of _infer_snapshot_date_from_name ----------------------
NAME_TOKENS == {Word, Mon(10), Num(7, 1), Num(2024, 4), NumExt(2021, 4)}

\* The content of the "(...)" group: none, "(Jan 7 2024)", "(v2)"
NAME_PARENS == {<<>>, <<Mon(1), Num(7, 1), Num(2024, 4)>>, <<Word>>}

\* The tokens a trailing "(...).csv" leaves after strip("() "): the closing
\* parenthesis is inside the last token, which is therefore no number.
ParenTokens(paren) ==
  IF paren = <<>> THEN <<>>
  ELSE SubSeq(paren, 1, Len(paren) - 1) \o <<Word>>

FileNames ==
  {[paren |-> p, tokens |-> pre \o ParenTokens(p)] :
     pre \in SeqsUpTo(NAME_TOKENS, MaxNameTokens), p \in NAME_PARENS}

InitNameCall ==
  /\ pc = "call"
  /\ call \in {Pending("_infer_snapshot_date_from_name", <<n>>) : n \in FileNames}
  /\ RunAllIdle

CallInferSnapshotDate ==
  /\ call.fn = "_infer_snapshot_date_from_name"
  /\ Return(<<>>, _infer_snapshot_date_from_name(call.args[1]))

NextName == CallInferSnapshotDate

SpecName == InitNameCall /\ [][NextName]_vars

\* ---- direct calls of _parse_nhtsa_date -----------------------------------
ID_CHARS == {"2", "0", "E", "x"}

\* The identifiers of the tests: "20E003", "23V456", None, "invalid"
TEST_IDS ==
  {Some(<<"2", "0", "E", "0", "0", "3">>), Some(<<"2", "3", "V", "4", "5", "6">>),
   None, Some(<<"i", "n", "v", "a", "l", "i", "d">>)}

FilingIds == TEST_IDS \cup {Some(t) : t \in SeqsUpTo(ID_CHARS, MaxIdLen)}

InitNhtsaCall ==
  /\ pc = "call"
  /\ call \in {Pending("_parse_nhtsa_date", <<id>>) : id \in FilingIds}
  /\ RunAllIdle

CallParseNhtsaDate ==
  /\ call.fn = "_parse_nhtsa_date"
  /\ Return(<<>>, _parse_nhtsa_date(call.args[1]))

NextNhtsa == CallParseNhtsaDate

SpecNhtsa == InitNhtsaCall /\ [][NextNhtsa]_vars

\* ---- any of the three standardizers -------------------------------------
InitStandardizers == InitAfdcCall \/ InitEiaCall \/ InitRecallsCall

NextStandardizers ==
  CallStandardizeAfdc \/ CallStandardizeEia \/ CallStandardizeRecalls

SpecStandardizers == InitStandardizers /\ [][NextStandardizers]_vars

\* ------------------------------------------------------------------------
\* Properties
\* ------------------------------------------------------------------------
Exists(f) == files[f] # None

RowsOf(f) == files[f][1].rows

\* The combined station frame is non-empty and has none of the state columns.
StateColumnMissing(df) ==
  ~IsEmpty(df) /\ \A i \in DOMAIN df.columns : ~Contains(STATE_COLS, df.columns[i])

\* C1: a station adapter that fails because its input has no state column
\* does not abort the run: run_all is never left by an exception then.
C1_StationFailureDoesNotAbort ==
  StateColumnMissing(afdc_raw) => pc # "raised"

\* C2: the master-panel step always ends the run normally; it writes the
\* master panel only when both the ports-per-100k table and the price table
\* are non-empty, and when either is empty it writes nothing and takes no
\* error path.
C2_MasterOnlyWhenBothNonEmpty ==
  [][pc = "master" =>
       /\ pc' = "done"
       /\ (Contains(written', F_MASTER) =>
             ~IsEmpty(ports_per_100k) /\ ~IsEmpty(price))
       /\ (IsEmpty(ports_per_100k) \/ IsEmpty(price) =>
             files' = files /\ written' = written /\ ~master_error')]_vars

\* The station files were written with a header only, the price table has
\* rows, and the run ended without a master panel.
C2_Witness ==
  /\ pc = "done"
  /\ Exists(F_PORTS)
  /\ IsEmpty(ports_per_100k)
  /\ ~IsEmpty(price)
  /\ ~Exists(F_MASTER)

\* A station row whose state and month (its date truncated) are those of l
HasStationRow(l) ==
  \E j \in DOMAIN ports_per_100k.rows :
     /\ ports_per_100k.rows[j]["state"] = l["state"]
     /\ ToMonth(ports_per_100k.rows[j]["date"]) = l["month"]

HasSalesRow(l) ==
  \E j \in DOMAIN sales.rows :
     sales.rows[j]["state"] = l["state"] /\ sales.rows[j]["month"] = l["month"]

\* C3: whenever the master panel is written, every row of the price table
\* appears in it with its price; a price row without a station row (or a
\* sales row) for its state-month is kept, with null ports_per_100k and
\* dcfast_share (or null sales measure), and no price row is dropped.
C3_PriceRowsKept ==
  Exists(F_MASTER) =>
    /\ Len(RowsOf(F_MASTER)) >= Len(price.rows)
    /\ \A i \in DOMAIN price.rows :
         LET l == price.rows[i]
             hits == {k \in DOMAIN RowsOf(F_MASTER) :
                        /\ RowsOf(F_MASTER)[k]["state"] = l["state"]
                        /\ RowsOf(F_MASTER)[k]["month"] = l["month"]
                        /\ RowsOf(F_MASTER)[k]["cents_per_kWh"] = l["cents_per_kWh"]}
         IN /\ hits # {}
            /\ ~HasStationRow(l) =>
                 \A k \in hits : /\ RowsOf(F_MASTER)[k]["ports_per_100k"] = None
                                 /\ RowsOf(F_MASTER)[k]["dcfast_share"] = None
            /\ (~IsEmpty(sales) /\ ~HasSalesRow(l)) =>
                 \A k \in hits : RowsOf(F_MASTER)[k]["MWh"] = None

\* A master panel was written from a price table with a state-month that
\* has no station row.
C3_Witness ==
  /\ pc = "done"
  /\ Exists(F_MASTER)
  /\ \E i \in DOMAIN price.rows : ~HasStationRow(price.rows[i])
  /\ \E i \in DOMAIN price.rows : HasStationRow(price.rows[i])

KeysUnique(rows, k1, k2) ==
  \A i, j \in DOMAIN rows :
     i # j => <<rows[i][k1], rows[i][k2]>> # <<rows[j][k1], rows[j][k2]>>

\* C4: no output table has two rows with the same key: (state, date) in the
\* station tables, (state, month) in the price, sales and master tables.
C4_KeysUnique ==
  /\ \A f \in {F_PORTS, F_DCFAST} :
        Exists(f) => KeysUnique(RowsOf(f), "state", "date")
  /\ \A f \in {F_PRICE, F_SALES, F_MASTER} :
        Exists(f) => KeysUnique(RowsOf(f), "state", "month")

\* The rows of the combined station frame that are electric and carry a
\* state code of the fixed set.
RetainedStationRows ==
  SelectSeq(afdc_raw.rows, LAMBDA r :
    /\ (HasCol(afdc_raw, FUEL_COL) => r[FUEL_COL] = "ELEC")
    /\ HasCol(afdc_raw, "State") /\ r["State"] \in STATE_ABBR)

\* C5: every row of every state-keyed output table has a state code of the
\* fixed set, and the ports the station table reports are those of the
\* input rows with such a code: rows with any other state add nothing.
C5_OnlyKnownStates ==
  /\ \A f \in {F_PORTS, F_DCFAST, F_PRICE, F_SALES, F_MASTER} :
        Exists(f) => \A i \in DOMAIN RowsOf(f) : RowsOf(f)[i]["state"] \in STATE_ABBR
  /\ Exists(F_PORTS) =>
       /\ \A i \in DOMAIN RowsOf(F_PORTS) : RowsOf(F_PORTS)[i]["ports_per_100k"] # None
       /\ SumSeq([i \in DOMAIN RowsOf(F_PORTS) |->
                    RowsOf(F_PORTS)[i]["ports_per_100k"][1].num])
          = 100000 * SumSeq([i \in DOMAIN RetainedStationRows |->
                               RowPorts(afdc_raw, RetainedStationRows[i])])

\* The station tables were written from input that has a row with a state
\* outside the set next to a row with a state of the set.
C5_Witness ==
  /\ pc = "done"
  /\ Exists(F_PORTS)
  /\ \E i \in DOMAIN afdc_raw.rows : afdc_raw.rows[i]["State"] = "XX"
  /\ RetainedStationRows # <<>>
  /\ Exists(F_PRICE)

AllInputsMissing ==
  /\ \A i \in DOMAIN paths.afdc_files : ~paths.afdc_files[i]
  /\ paths.eia_price_xlsx = "missing"
  /\ paths.eia_sales_xlsx = "missing"
  /\ \A i \in DOMAIN paths.recall_files : ~paths.recall_files[i]

\* C6: when every input path is a nonexistent file, run_all is never left by
\* an exception, no output file is ever written, and the output directory
\* exists once the directory step has run.
C6_MissingInputsWriteNothing ==
  AllInputsMissing =>
    /\ pc # "raised"
    /\ written = <<>>
    /\ \A f \in OUTPUT_FILES : ~Exists(f)
    /\ (pc # "mkdir" => out_dir_exists)

C6_Witness == AllInputsMissing /\ pc = "done"

\* C7: the master-panel step never lets an exception leave run_all; when an
\* exception is raised in it the master panel is not written, and the files
\* written earlier in the run keep their content.
C7_MasterFailureContained ==
  [][pc = "master" =>
       /\ pc' = "done"
       /\ raised_by' = ""
       /\ \A f \in OUTPUT_FILES \ {F_MASTER} : files'[f] = files[f]
       /\ (master_error' => ~Exists(F_MASTER)' /\ written' = written)]_vars

\* The join failed after the station and price files had been written.
C7_Witness ==
  /\ pc = "done"
  /\ master_error
  /\ Exists(F_PORTS)
  /\ Exists(F_PRICE)
  /\ ~Exists(F_MASTER)

\* C8: ingest_eia_price and ingest_eia_sales never raise: no run is left by
\* an exception of the EIA block, whatever the workbooks are.
C8_EiaAdaptersNeverRaise == raised_by # "eia"

SortedByStateMonth(rows) ==
  \A i \in 1..(Len(rows) - 1) : ~StateMonthLess(rows[i + 1], rows[i])

\* C9: the price file and the sales file are each sorted by state and then
\* month whenever they are written.
C9_PriceAndSalesSorted ==
  /\ Exists(F_PRICE) => SortedByStateMonth(RowsOf(F_PRICE))
  /\ Exists(F_SALES) => SortedByStateMonth(RowsOf(F_SALES))

\* ---- direct calls --------------------------------------------------------
STANDARDIZERS == {"standardize_afdc", "standardize_eia", "standardize_recalls"}

\* C11: after a standardizer has returned, every table the caller passed to
\* it has the same column names, rows and values as before the call.
C11_StandardizersLeaveInputsUnchanged ==
  (pc = "returned" /\ call.fn \in STANDARDIZERS)
    => \A i \in DOMAIN call.after : call.after[i] = call.args[i]

\* ---- standardize_afdc called directly ------------------------------------
AfdcReturned == Returned("standardize_afdc") /\ ~call.result.raised

\* The state column of a station frame: the first of its columns that is one
\* of the three spellings.
StateColOf(df) ==
  df.columns[CHOOSE i \in DOMAIN df.columns :
               /\ Contains(STATE_COLS, df.columns[i])
               /\ \A j \in 1..(i - 1) : ~Contains(STATE_COLS, df.columns[j])]

\* The rows of df that standardize_afdc retains for the group (state, date).
GroupRows(df, state, date) ==
  SelectSeq(df.rows,
            LAMBDA r : /\ r[StateColOf(df)] = state
                       /\ r[StateColOf(df)] \in STATE_ABBR
                       /\ r["snapshot_date"] = date)

\* The count column of one kind (DC fast, Level 2, Level 1) that a frame
\* has: the first spelling of the kind that is a header, {} when none is.
CountColumn(df, spellings) ==
  {spellings[i] : i \in {i \in DOMAIN spellings :
                           /\ HasCol(df, spellings[i])
                           /\ \A j \in 1..(i - 1) : ~HasCol(df, spellings[j])}}

CountOf(df, r, spellings) ==
  IF CountColumn(df, spellings) = {} THEN 0
  ELSE LET c == CHOOSE c \in CountColumn(df, spellings) : TRUE
       IN IF r[c] = None THEN 0 ELSE r[c][1]

ConnectorColumns(df) == {c \in Range(df.columns) : c \in CONNECTOR_COLS}

\* Non-empty trimmed tokens of a ';'-separated cell
TokenCount(cell) ==
  IF cell = None THEN 0
  ELSE Cardinality({i \in DOMAIN cell[1] : cell[1][i] # "" /\ cell[1][i] # " "})

\* The port count the three tiers give for one row
TierPorts(df, r) ==
  IF \E k \in {DC_FAST_COLS, LVL2_COLS, LVL1_COLS} : CountColumn(df, k) # {}
    THEN CountOf(df, r, DC_FAST_COLS) + CountOf(df, r, LVL2_COLS)
         + CountOf(df, r, LVL1_COLS)
  ELSE IF ConnectorColumns(df) # {}
    THEN TokenCount(r[CHOOSE c \in ConnectorColumns(df) : TRUE])
  ELSE 1

GroupTierPorts(df, state, date) ==
  LET rs == GroupRows(df, state, date)
  IN SumSeq([i \in DOMAIN rs |-> TierPorts(df, rs[i])])

\* C12: the ports every (state, date) row of the ports-per-100k table rests
\* on are the sum, over the group's retained rows, of the port count of the
\* first applicable tier: count columns, else connector tokens, else 1.
C12_PortsByFirstApplicableTier ==
  AfdcReturned =>
    LET df == call.args[1]
        out == call.result.ports_per_100k.rows
    IN \A i \in DOMAIN out :
         out[i]["ports_per_100k"]
           = Some([num |-> GroupTierPorts(df, out[i]["state"], out[i]["date"]) * 100000,
                   den |-> PopulationOf(DEFAULT_STATE_POP, out[i]["state"])[1]])

\* A frame with a Level 2 count column and a connector column, in which a
\* row has three connector pieces but Level 2 count 8, is reported with the
\* count tier.
C12_Witness ==
  /\ AfdcReturned
  /\ HasCol(call.args[1], "EV Level2 EVSE Num")
  /\ HasCol(call.args[1], "EV Connector Types")
  /\ Len(call.args[1].rows) = 1
  /\ call.args[1].rows[1]["EV Connector Types"] = Some(<<"J1772", " ", "CCS">>)
  /\ call.args[1].rows[1]["EV Level2 EVSE Num"] = Some(8)
  /\ call.result.ports_per_100k.rows[1]["ports_per_100k"][1].num = 800000

GroupDcFast(df, state, date) ==
  LET rs == GroupRows(df, state, date)
  IN SumSeq([i \in DOMAIN rs |-> CountOf(df, rs[i], DC_FAST_COLS)])

\* C13: every (state, date) group of retained station rows has a row in the
\* dcfast-share table, and each row of the table reports (sum of the group's
\* DC-fast ports) / (sum of the group's ports) when that total is greater
\* than 0 and null when it is 0.
C13_DcFastShareOfGroup ==
  AfdcReturned =>
    LET df == call.args[1]
        out == call.result.dcfast_share.rows
    IN /\ \A j \in DOMAIN df.rows :
            df.rows[j][StateColOf(df)] \in STATE_ABBR
              => \E i \in DOMAIN out :
                   /\ out[i]["state"] = df.rows[j][StateColOf(df)]
                   /\ out[i]["date"] = df.rows[j]["snapshot_date"]
       /\ \A i \in DOMAIN out :
            LET total == GroupTierPorts(df, out[i]["state"], out[i]["date"])
                dc == GroupDcFast(df, out[i]["state"], out[i]["date"])
            IN out[i]["dcfast_share"]
                 = IF total > 0 THEN Some([num |-> dc, den |-> total]) ELSE None

\* Two CA rows (dc 5, L2 10, L1 0) and (dc 3, L2 8, L1 0) on one date give
\* the share 8/26.
C13_Witness ==
  /\ AfdcReturned
  /\ Len(call.args[1].rows) = 2
  /\ HasCol(call.args[1], "EV Level1 EVSE Num")
  /\ \A j \in 1..2 :
       /\ call.args[1].rows[j]["State"] = "CA"
       /\ call.args[1].rows[j]["EV DC Fast Count"] = Some(IF j = 1 THEN 5 ELSE 3)
       /\ call.args[1].rows[j]["EV Level2 EVSE Num"] = Some(IF j = 1 THEN 10 ELSE 8)
       /\ call.args[1].rows[j]["EV Level1 EVSE Num"] = Some(0)
  /\ Len(call.result.dcfast_share.rows) = 1
  /\ call.result.dcfast_share.rows[1]["dcfast_share"] = Some([num |-> 8, den |-> 26])

\* ---- standardize_recalls called directly ---------------------------------
RecallsReturned == Returned("standardize_recalls")

\* The table passed to standardize_recalls, under normalized column names
RecallInput == NormalizeColumns(call.args[1])

MakeColumns(df) == {c \in Range(df.columns) : c \in MAKE_COLS}

\* The date sources in the order of their priority: received date, record
\* creation date, a generic date-named field, the filing identifier.
DATE_SOURCE_PRIORITY ==
  <<"REPORT RECEIVED DATE", "RECORD CREATION DATE", "DATE", "RECALL DATE", "NHTSA ID">>

DateSources(df) ==
  {i \in DOMAIN DATE_SOURCE_PRIORITY : HasCol(df, DATE_SOURCE_PRIORITY[i])}

\* The source of highest priority that the table has
PrioritySource(df) ==
  DATE_SOURCE_PRIORITY[CHOOSE i \in DateSources(df) : \A j \in DateSources(df) : i <= j]

\* The month of a filing read from the given source: decoded from the
\* identifier, or the calendar date truncated to its month.
MonthFrom(r, source) ==
  IF source = "NHTSA ID" THEN _parse_nhtsa_date(r[source])
  ELSE IF r[source] = None THEN None
  ELSE Some(ToMonth(r[source][1]))

\* C14: when the table has a make column and a date source, every row of
\* the result is the (make, month) of a filing whose month is read from the
\* source of highest priority, whatever the order of the columns.
C14_DateSourceByPriority ==
  (RecallsReturned /\ ~IsEmpty(call.args[1]) /\ MakeColumns(RecallInput) # {}
     /\ DateSources(RecallInput) # {})
    => \A i \in DOMAIN call.result.rows :
         \E j \in DOMAIN RecallInput.rows :
           MonthFrom(RecallInput.rows[j], PrioritySource(RecallInput))
             = Some(call.result.rows[i]["month"])

\* The make of a filing, upper-cased and trimmed
NormMake(df, r) ==
  LET c == CHOOSE c \in MakeColumns(df) : TRUE
  IN IF r[c] = NaNStr THEN NaNStr ELSE UpperStrip(r[c])

\* The date source standardize_recalls reads: the first date-bearing column
\* of the table.
UsedSource(df) ==
  df.columns[CHOOSE i \in DOMAIN df.columns :
               /\ df.columns[i] \in DATE_COLS
               /\ \A j \in 1..(i - 1) : df.columns[j] \notin DATE_COLS]

\* Months since year 0 of a month timestamp
MonthIndex(ts) == ts[1] * 12 + ts[2]

\* The filings of a make whose month lies in lo..hi (month indices)
FilingsIn(df, make, lo, hi) ==
  {j \in DOMAIN df.rows :
     /\ NormMake(df, df.rows[j]) = make
     /\ MonthFrom(df.rows[j], UsedSource(df)) # None
     /\ MonthIndex(MonthFrom(df.rows[j], UsedSource(df))[1]) \in lo..hi}

HasMonthlyResult ==
  /\ RecallsReturned
  /\ ~IsEmpty(call.args[1])
  /\ MakeColumns(RecallInput) # {}
  /\ DateSources(RecallInput) # {}

\* C15: recall_count_12m of a (make, month) row is the number of the make's
\* filings in the 12 calendar months ending at that month, and never null
\* (stated for calls without an allow-list and rows with a make).
C15_TwelveCalendarMonths ==
  (HasMonthlyResult /\ call.args[2] = <<>>)
    => \A i \in DOMAIN call.result.rows :
         LET row == call.result.rows[i]
         IN row["make"] # NaNStr
              => row["recall_count_12m"]
                   = Some(Cardinality(FilingsIn(RecallInput, row["make"],
                                                MonthIndex(row["month"]) - 11,
                                                MonthIndex(row["month"]))))

\* The rows of the result that belong to a make
RowsOfMake(make) ==
  {i \in DOMAIN call.result.rows : call.result.rows[i]["make"] = make}

\* C16: for a make with fewer than 12 months in the result, recall_count_12m
\* at each month is the number of the make's filings up to and including that
\* month, and does not decrease from one month of the make to the next.
C16_CumulativeBelowTwelveMonths ==
  HasMonthlyResult
    => \A i \in DOMAIN call.result.rows :
         LET row == call.result.rows[i]
         IN (row["make"] # NaNStr /\ Cardinality(RowsOfMake(row["make"])) < 12)
              => /\ row["recall_count_12m"]
                      = Some(Cardinality(FilingsIn(RecallInput, row["make"], 0,
                                                   MonthIndex(row["month"]))))
                 /\ \A k \in RowsOfMake(row["make"]) :
                      k < i => /\ MonthIndex(call.result.rows[k]["month"])
                                    < MonthIndex(row["month"])
                               /\ call.result.rows[k]["recall_count_12m"][1]
                                    <= row["recall_count_12m"][1]

\* A make with filings in two months: the second month reports both.
C16_Witness ==
  /\ HasMonthlyResult
  /\ Len(call.result.rows) = 2
  /\ call.result.rows[1]["make"] = "HONDA"
  /\ call.result.rows[2]["make"] = "HONDA"
  /\ call.result.rows[1]["recall_count_12m"] = Some(1)
  /\ call.result.rows[2]["recall_count_12m"] = Some(2)

\* The filings standardize_recalls retains: all without an allow-list, else
\* those whose normalized make is the upper-cased form of an entry.
Retained(df, makes) ==
  {j \in DOMAIN df.rows :
     makes # <<>> => \E k \in DOMAIN makes : NormMake(df, df.rows[j]) = Upper(makes[k])}

HasFallbackResult ==
  /\ RecallsReturned
  /\ ~IsEmpty(call.args[1])
  /\ MakeColumns(RecallInput) # {}
  /\ DateSources(RecallInput) = {}

\* The group key of a filing in the fallback: (make, model year) when the
\* table has a model-year column, else (make).
FallbackKey(df, r) ==
  IF HasCol(df, "MODEL YEAR") THEN <<NormMake(df, r), r["MODEL YEAR"]>>
  ELSE <<NormMake(df, r)>>

FallbackRowKey(df, row) ==
  IF HasCol(df, "MODEL YEAR") THEN <<row["make"], row["MODEL YEAR"]>>
  ELSE <<row["make"]>>

\* The fallback result counts the retained filings by group.
FallbackCounts ==
  LET df == RecallInput
      kept == Retained(df, call.args[2])
      out == call.result.rows
  IN /\ call.result.columns
          = IF HasCol(df, "MODEL YEAR") THEN <<"make", "MODEL YEAR", "recall_count">>
            ELSE <<"make", "recall_count">>
     /\ \A i \in DOMAIN out :
          /\ out[i]["recall_count"]
               = Cardinality({j \in kept :
                                FallbackKey(df, df.rows[j]) = FallbackRowKey(df, out[i])})
          /\ out[i]["recall_count"] >= 1
          /\ \A k \in DOMAIN out :
               FallbackRowKey(df, out[k]) = FallbackRowKey(df, out[i]) => k = i
     /\ \A j \in kept :
          \E i \in DOMAIN out : FallbackRowKey(df, out[i]) = FallbackKey(df, df.rows[j])
     /\ SumSeq([i \in DOMAIN out |-> out[i]["recall_count"]]) = Cardinality(kept)

\* C17 as stated: with a make column and no date-bearing column the result
\* is never empty and counts the retained filings by (make, model year), or
\* by make.
C17_FallbackNeverEmpty ==
  HasFallbackResult => (~IsEmpty(call.result) /\ FallbackCounts)

\* C17, amended: with a make column and no date-bearing column the result
\* counts the retained filings by (make, model year), or by make; the counts
\* sum to the number of retained filings, and the result is non-empty when
\* at least one filing is retained.
C17_FallbackCountsRetained ==
  HasFallbackResult
    => /\ FallbackCounts
       /\ Retained(RecallInput, call.args[2]) # {} => ~IsEmpty(call.result)

\* Two retained filings of one make and model year are reported as one row
\* with count 2.
C17_Witness ==
  /\ HasFallbackResult
  /\ HasCol(RecallInput, "MODEL YEAR")
  /\ Len(call.result.rows) = 1
  /\ call.result.rows[1]["recall_count"] = 2
  /\ call.result.rows[1]["MODEL YEAR"] = Some(2021)

\* C18: with an allow-list, every row of the monthly result carries the
\* upper-cased, trimmed form of an entry as its make, and every filing whose
\* normalized make is that form of an entry and whose month resolves is
\* counted in a row of its make and month.
C18_AllowListFilter ==
  (HasMonthlyResult /\ call.args[2] # <<>>)
    => LET df == RecallInput
           makes == call.args[2]
           allowed == {UpperStrip(makes[k]) : k \in DOMAIN makes}
           out == call.result.rows
       IN /\ \A i \in DOMAIN out : out[i]["make"] \in allowed
          /\ \A j \in DOMAIN df.rows :
               (/\ NormMake(df, df.rows[j]) \in allowed
                /\ MonthFrom(df.rows[j], UsedSource(df)) # None)
                 => \E i \in DOMAIN out :
                      /\ out[i]["make"] = NormMake(df, df.rows[j])
                      /\ Some(out[i]["month"]) = MonthFrom(df.rows[j], UsedSource(df))

\* ---- _infer_snapshot_date_from_name called directly -----------------------
\* The 4-digit years a file name contains
EmbeddedYears(name) ==
  {t.v : t \in {t \in Range(name.tokens) \cup Range(name.paren) :
                  t.k \in {"num", "numext"} /\ t.n = 4}}

\* C19: for a file name that contains a 4-digit year,
\* _infer_snapshot_date_from_name returns a date, and its year is a year
\* the name contains.
C19_YearOfNameInferred ==
  (Returned("_infer_snapshot_date_from_name") /\ EmbeddedYears(call.args[1]) # {})
    => /\ call.result # None
       /\ call.result[1][1] \in EmbeddedYears(call.args[1])

\* ---- column lookups of the station adapter -------------------------------
\* A header compared without regard to case and surrounding whitespace:
\* lower-cased and trimmed, for the headers that differ from that form.
FoldHeader(h) ==
  IF h \in {"State", "STATE", " State "} THEN "state"
  ELSE IF h = "EV DC Fast Count" THEN "ev dc fast count"
  ELSE IF h = "EV Fast Count" THEN "ev fast count"
  ELSE IF h = "EVDC_FastCount" THEN "evdc_fastcount"
  ELSE h

\* The headers of df that match the candidate, compared that way
Matching(df, candidate) ==
  {c \in Range(df.columns) : FoldHeader(c) = FoldHeader(candidate)}

\* The column the ordered candidates resolve to: a header matching the first
\* candidate that has a match, {} when no candidate has one.
Resolved(df, candidates) ==
  UNION {Matching(df, candidates[i]) :
           i \in {i \in DOMAIN candidates :
                    /\ Matching(df, candidates[i]) # {}
                    /\ \A j \in 1..(i - 1) : Matching(df, candidates[j]) = {}}}

\* C20: the station adapter resolves its state column and its DC-fast count
\* column among the headers without regard to case and surrounding
\* whitespace: a table with a state header in any such form is standardized,
\* and the DC-fast ports of every group are the sum of the resolved column.
C20_ColumnsResolvedInsensitively ==
  (Returned("standardize_afdc") /\ ~IsEmpty(call.args[1]))
    => LET df == call.args[1]
           state_col == CHOOSE c \in Resolved(df, STATE_COLS) : TRUE
           dc_col == CHOOSE c \in Resolved(df, DC_FAST_COLS) : TRUE
           out == call.result.dcfast_share.rows
           Members(i) == SelectSeq(df.rows,
                                   LAMBDA r : /\ r[state_col] = out[i]["state"]
                                              /\ r["snapshot_date"] = out[i]["date"])
           Dc(i) == SumSeq([j \in DOMAIN Members(i) |->
                              IF Members(i)[j][dc_col] = None THEN 0
                              ELSE Members(i)[j][dc_col][1]])
       IN /\ Resolved(df, STATE_COLS) # {} => ~call.result.raised
          /\ (~call.result.raised /\ Resolved(df, DC_FAST_COLS) # {})
               => \A i \in DOMAIN out :
                    out[i]["dcfast_share"] # None
                      => out[i]["dcfast_share"][1].num = Dc(i)

\* ---- _parse_nhtsa_date called directly -----------------------------------
\* The identifier has the form <2-digit year><letter><digits>: nothing but
\* digits follows the letter.
MatchesIdPattern(id) ==
  /\ id # None
  /\ Len(id[1]) >= 3
  /\ IsDigit(id[1][1])
  /\ IsDigit(id[1][2])
  /\ id[1][3] \in UPPER_LETTERS
  /\ \A i \in 4..Len(id[1]) : IsDigit(id[1][i])

\* C21: _parse_nhtsa_date returns January 1 of 2000+YY exactly when the
\* identifier has the form <2-digit year YY><letter><digits>, and none for
\* every other identifier, null included.
C21_DecodesExactlyThePattern ==
  Returned("_parse_nhtsa_date")
    => call.result
         = IF MatchesIdPattern(call.args[1])
             THEN Some(<<2000 + 10 * DigitVal(call.args[1][1][1])
                           + DigitVal(call.args[1][1][2]), 1, 1>>)
           ELSE None

\* ---- order of the stages of run_all ---------------------------------------
\* The output files in the order in which run_all can write them
FILE_ORDER == <<F_PORTS, F_DCFAST, F_PRICE, F_SALES, F_RECALLS, F_MASTER>>

FilePosition(f) == CHOOSE i \in DOMAIN FILE_ORDER : FILE_ORDER[i] = f

\* The stage that writes a file: 1 station, 2 price/sales, 3 recalls,
\* 4 master panel
StageOfFile(f) ==
  IF f \in {F_PORTS, F_DCFAST} THEN 1
  ELSE IF f \in {F_PRICE, F_SALES} THEN 2
  ELSE IF f = F_RECALLS THEN 3
  ELSE 4

\* The stage run_all is in: the one it is about to execute, or the one an
\* exception left it from; 5 after the last stage.
StageReached ==
  LET at == IF pc = "raised" THEN raised_by ELSE pc
  IN IF at = "afdc" THEN 1
     ELSE IF at = "eia" THEN 2
     ELSE IF at = "recalls" THEN 3
     ELSE IF at = "master" THEN 4
     ELSE IF at = "done" THEN 5
     ELSE 0

\* C22: at every point of a run of run_all the files written so far were
\* written by stages already executed, in the order station, price/sales,
\* recalls, master panel, each at most once; and once the master panel is
\* written it is the last file written, after the ports-per-100k, the
\* dcfast-share and the price file of this run.
C22_StagesInOrderMasterLast ==
  /\ \A i \in DOMAIN written : StageOfFile(written[i]) < StageReached
  /\ \A i, j \in DOMAIN written :
       i < j => FilePosition(written[i]) < FilePosition(written[j])
  /\ Contains(written, F_MASTER)
       => /\ written[Len(written)] = F_MASTER
          /\ Contains(written, F_PORTS)
          /\ Contains(written, F_DCFAST)
          /\ Contains(written, F_PRICE)

\* A run that has written all six files, the master panel last
C22_Witness ==
  /\ pc = "done"
  /\ written = FILE_ORDER

====
